---- MODULE Spec2Model ----
(***************************************************************************)
(* Model of tools/mergelcp.c: the cascading multi-level k-way merge of     *)
(* <pos, lcp> pair runs.  The driver (main, heap_sort_level, file_open)    *)
(* is translated from mergelcp.c; the merge engine of heap.h (heap_alloc,  *)
(* heap_insert, heap_delete_min, heap_write, heap_free, key, MAX_KEY) is   *)
(* not part of the sources and is modelled from the specification's        *)
(* MergeEngine / RunCursor / PackedRecordCodec sections.                   *)
(***************************************************************************)
EXTENDS Integers, Sequences, FiniteSets, TLC

(***************************************************************************)
(* Bounds of the model.                                                    *)
(***************************************************************************)
\* largest number of runs listed in the original size index
MaxRuns == 7
\* largest total number of records over all runs of the original input
MaxRecords == 3

(***************************************************************************)
(* Command line configurations tried: <<pos_size, lcp_size>> as returned   *)
(* by atoi (so possibly zero or negative) and the -k value.                *)
(***************************************************************************)
Widths == {<<1, 1>>, <<0, 4>>, <<4, 0>>, <<9, 8>>, <<13, 1>>, <<-1, 5>>}
HeapSizes == {1, 2, 3}

NULL == <<"NULL">>
\* a stream that is not open, and the heap pointer after heap_free
NullStream == [name |-> NULL, at |-> 0]
NoHeap == [cap |-> 0, file |-> NULL, cur |-> <<>>]

(***************************************************************************)
(* PackedRecordCodec: the key holds pos in the high bytes and lcp in the   *)
(* low lcp_size bytes.                                                     *)
(***************************************************************************)
Pow2(n) == 2 ^ n

\* the all-ones key of the configured widths.  Keys wider than three bytes
\* do not fit TLC's integers: such configurations only ever see runs
\* without records, and their sentinel is capped at three bytes
MAX_KEY(pw, vw) ==
  IF pw + vw < 0 THEN 0
  ELSE IF pw + vw > 3 THEN Pow2(24) - 1
  ELSE Pow2(8 * (pw + vw)) - 1

Pack(p, v, vw) == p * Pow2(8 * vw) + v

pos(k, vw) == k \div Pow2(8 * vw)

lcp(k, vw) == k % Pow2(8 * vw)

\* the records the inputs are built from: a small one, a larger one whose
\* lcp is smaller, and the record whose bits are all ones
RecordSamples(pw, vw) ==
  IF pw \in 1..2 /\ vw \in 1..2 /\ pw + vw <= 3
  THEN {Pack(0, 1, vw), Pack(1, 0, vw), MAX_KEY(pw, vw)}
  ELSE {}

IsSorted(s) == \A j \in 1..(Len(s) - 1) : s[j] <= s[j + 1]

RECURSIVE SumSeq(_)
SumSeq(s) == IF s = <<>> THEN 0 ELSE Head(s) + SumSeq(Tail(s))

\* all lists of n run lengths whose sum is at most r
RECURSIVE CountLists(_, _)
CountLists(n, r) ==
  IF n = 0 THEN {<<>>}
  ELSE UNION {{<<c>> \o rest : rest \in CountLists(n - 1, r - c)} : c \in 0..r}

\* the size indexes tried
SizeIndexes == UNION {CountLists(n, MaxRecords) : n \in 0..MaxRuns}

\* the runs of a pair file, cut as its size index says
RECURSIVE Split(_, _)
Split(flat, counts) ==
  IF counts = <<>> THEN <<>>
  ELSE <<SubSeq(flat, 1, Head(counts))>>
       \o Split(SubSeq(flat, Head(counts) + 1, Len(flat)), Tail(counts))

RECURSIVE Flatten(_)
Flatten(runs) ==
  IF runs = <<>> THEN <<>> ELSE Head(runs) \o Flatten(Tail(runs))

Counts(runs) == [j \in 1..Len(runs) |-> Len(runs[j])]

(***************************************************************************)
(* File names.  <<"pair", 0>> and <<"size", 0>> are FILE.pair.lcp and      *)
(* FILE.size.lcp; <<"pair", L>> and <<"size", L>> are the level files;     *)
(* <<"lcp", w>> is FILE.w.lcp.                                             *)
(***************************************************************************)
PairName(l) == <<"pair", l>>
SizeName(l) == <<"size", l>>
OutName(w) == <<"lcp", w>>

Exists(files, name) == name \in DOMAIN files

\* fopen(name, "wb"): creates the file or truncates it
Create(files, name) ==
  [n \in DOMAIN files \cup {name} |-> IF n = name THEN <<>> ELSE files[n]]

\* remove(name): no effect when the file does not exist
Remove(files, name) == [n \in DOMAIN files \ {name} |-> files[n]]

Append2(files, name, recs) ==
  [n \in DOMAIN files |-> IF n = name THEN files[n] \o recs ELSE files[n]]

(***************************************************************************)
(* MergeEngine and RunCursor.  A heap is the capacity it was allocated     *)
(* with, the run file it reads and one cursor <<off, rem>> per registered  *)
(* run: off records into the file, rem records left.                       *)
(***************************************************************************)
heap_alloc(n, file, lvl) == [cap |-> n, file |-> file, cur |-> <<>>]

\* register(run): opens a cursor when the engine is below its capacity.
\* main passes the offset seek; the count of the run is the size it has
\* just read from the size index
heap_insert(hp, off, count) ==
  IF Len(hp.cur) < hp.cap
  THEN [hp EXCEPT !.cur = Append(@, [off |-> off, rem |-> count])]
  ELSE hp

\* peekKey(): the next unread record, the sentinel when exhausted
PeekKey(c, content, sentinel) ==
  IF c.rem = 0 THEN sentinel ELSE content[c.off + 1]

MinOf(S) == CHOOSE x \in S : \A y \in S : x <= y

\* key(0): the smallest key of the heap
key0(hp, content, sentinel) ==
  IF hp.cur = <<>> THEN sentinel
  ELSE MinOf({PeekKey(hp.cur[j], content, sentinel) : j \in 1..Len(hp.cur)})

\* advance(): without effect on an exhausted cursor
Advance(c) == IF c.rem = 0 THEN c ELSE [off |-> c.off + 1, rem |-> c.rem - 1]

\* popMin(): advances the cursor holding the smallest key
heap_delete_min(hp, content, sentinel) ==
  LET m == key0(hp, content, sentinel)
      j == MinOf({x \in 1..Len(hp.cur) :
                    PeekKey(hp.cur[x], content, sentinel) = m})
  IN [tmp |-> m, h |-> [hp EXCEPT !.cur[j] = Advance(@)]]

\* writeOutput(): the pair at levels >= 1, the lcp field alone at level 0
heap_write(tmp, lvl, vw) == IF lvl = 0 THEN lcp(tmp, vw) ELSE tmp

Exhausted(hp) == \A j \in 1..Len(hp.cur) : hp.cur[j].rem = 0

(***************************************************************************)
(* heap_sort_level: pops and writes the minimum until key(0) is the        *)
(* sentinel; at levels >= 1 appends the sentinel and counts it in sum.     *)
(***************************************************************************)
\* the condition of the while loop
DrainContinues(k, sentinel) == k # sentinel

RECURSIVE DrainLoop(_, _, _, _, _, _)
DrainLoop(hp, content, sentinel, lvl, vw, acc) ==
  IF DrainContinues(key0(hp, content, sentinel), sentinel)
  THEN \* one iteration: d is the result of the one heap_delete_min call
       CHOOSE res \in
         {DrainLoop(d.h, content, sentinel, lvl, vw,
                    [acc EXCEPT !.written = Append(@, heap_write(d.tmp, lvl, vw)),
                                !.sum = @ + 1,
                                !.h = d.h]) :
            d \in {heap_delete_min(hp, content, sentinel)}} : TRUE
  ELSE acc

\* a pass that does not count the sentinel it appends
heap_sort_level_NoCount(hp, content, sum0, lvl, pw, vw) ==
  LET sentinel == MAX_KEY(pw, vw)
      d == DrainLoop(hp, content, sentinel, lvl, vw,
                     [written |-> <<>>, sum |-> sum0, h |-> hp])
  IN IF lvl # 0
     THEN [d EXCEPT !.written = Append(@, heap_write(sentinel, 1, vw))]
     ELSE d

heap_sort_level(hp, content, sum0, lvl, pw, vw) ==
  LET sentinel == MAX_KEY(pw, vw)
      d == DrainLoop(hp, content, sentinel, lvl, vw,
                     [written |-> <<>>, sum |-> sum0, h |-> hp])
  IN IF lvl # 0
     THEN [d EXCEPT !.written = Append(@, heap_write(sentinel, 1, vw)),
                    !.sum = @ + 1]
     ELSE d

(***************************************************************************)
(* State of one invocation of main.                                        *)
(***************************************************************************)
VARIABLES
  pos_size, lcp_size, heap_size,  \* the configuration
  pc,                             \* position in main
  level, onelevel, i, blocks, seek, sum, total,
  h,                              \* the live heap, NoHeap when released
  f_size, f_lcp, f_size_multi,    \* open files: f_size is [name, at]
  c_lcp, c_size, c_lcp_multi, c_size_multi,
  fs,                             \* the files that exist, with their records
  input,                          \* the runs of the original input
  missing,                        \* the input files absent at the start
  created,                        \* names of the files created so far
  allocs,                         \* number of heap_alloc calls so far
  passes,                         \* level argument of each heap_sort_level call
  last,                           \* the latest heap_sort_level call
  prev                            \* the result of an earlier invocation

vars == <<pos_size, lcp_size, heap_size, pc, level, onelevel, i, blocks, seek,
          sum, total, h, f_size, f_lcp, f_size_multi, c_lcp, c_size,
          c_lcp_multi, c_size_multi, fs, input, missing, created, allocs,
          passes, last, prev>>

\* no heap_sort_level call yet
NoCall == [level |-> -1, before |-> NoHeap, after |-> NoHeap,
           runs |-> <<>>, written |-> <<>>, sum |-> 0]

\* what a heap_sort_level call at level lvl on the heap hp did
\* and the records of the runs registered in hp
Call(hp, content, lvl, r) ==
  [level |-> lvl, before |-> hp, after |-> r.h,
   runs |-> [j \in 1..Len(hp.cur) |->
               SubSeq(content, hp.cur[j].off + 1,
                      hp.cur[j].off + hp.cur[j].rem)],
   written |-> r.written, sum |-> r.sum]

\* the input files an invocation finds: both, or one or both missing
InputFiles(runs, present) ==
  [n \in {PairName(0) : x \in present \cap {"pair"}}
         \cup {SizeName(0) : x \in present \cap {"size"}} |->
     IF n = PairName(0) THEN Flatten(runs) ELSE Counts(runs)]

Init ==
  /\ \E w \in Widths :
       /\ pos_size = w[1]
       /\ lcp_size = w[2]
       /\ \E counts \in SizeIndexes :
            \E flat \in [1..SumSeq(counts) -> RecordSamples(w[1], w[2])] :
              /\ input = Split(flat, counts)
              /\ \A j \in 1..Len(input) : IsSorted(input[j])
              \* every input with both files, and the inputs of at most
              \* one record with an input file missing
              /\ \/ missing = {}
                 \/ Len(flat) <= 1 /\ missing \in SUBSET {"pair", "size"}
              /\ fs = InputFiles(input, {"pair", "size"} \ missing)
  /\ heap_size \in HeapSizes
  /\ pc = "start"
  /\ level = 0 /\ onelevel = 0 /\ i = 0 /\ blocks = 0
  /\ seek = 0 /\ sum = 0 /\ total = 0
  /\ h = NoHeap
  /\ f_size = NullStream /\ f_lcp = NULL /\ f_size_multi = NULL
  /\ c_lcp = NULL /\ c_size = NULL /\ c_lcp_multi = NULL /\ c_size_multi = NULL
  /\ created = {} /\ allocs = 0 /\ passes = <<>> /\ last = NoCall
  /\ prev = <<>>

(***************************************************************************)
(* main, lines 152-175: validation of the widths and of the heap size.     *)
(***************************************************************************)
WidthsRejected(p, l) == p + l > 16 \/ p = 0 \/ l = 0

\* a validation that lets a heap of one run through
HeapRejected_BelowOne(k) == k < 1

HeapRejected(k) == k < 2

Validate ==
  /\ pc = "start"
  /\ IF WidthsRejected(pos_size, lcp_size) \/ HeapRejected(heap_size)
     THEN /\ pc' = "rejected"
          /\ UNCHANGED <<c_lcp, c_size>>
     ELSE /\ pc' = "level"
          /\ c_lcp' = PairName(0)
          /\ c_size' = SizeName(0)
  /\ UNCHANGED <<pos_size, lcp_size, heap_size, level, onelevel, i, blocks,
                 seek, sum, total, h, f_size, f_lcp, f_size_multi,
                 c_lcp_multi, c_size_multi, fs, input, missing, created, allocs,
                 passes, prev,
                 last>>

(***************************************************************************)
(* main, lines 203-216: start of a level.  heap_alloc binds the engine to  *)
(* the run file; a missing run file is the fatal MissingInput error.  The  *)
(* result of fopen(c_size) is not tested.                                  *)
(***************************************************************************)
HeapOpenFails(files, name) == ~Exists(files, name)

LevelBegin ==
  /\ pc = "level"
  /\ IF HeapOpenFails(fs, c_lcp)
     THEN /\ pc' = "fatal"
          /\ level' = level + 1
          /\ seek' = 0 /\ blocks' = 1 /\ i' = 0 /\ sum' = 0
          /\ UNCHANGED <<h, f_size, f_lcp, f_size_multi, c_lcp_multi,
                         c_size_multi, fs, created, allocs>>
     ELSE /\ pc' = "read"
          /\ seek' = 0 /\ blocks' = 1 /\ i' = 0 /\ sum' = 0
          /\ level' = level + 1
          /\ h' = heap_alloc(heap_size, c_lcp, level')
          /\ allocs' = allocs + 1
          /\ f_size' = IF Exists(fs, c_size) THEN [name |-> c_size, at |-> 0]
                       ELSE NullStream
          /\ c_lcp_multi' = PairName(level')
          /\ c_size_multi' = SizeName(level')
          /\ f_lcp' = c_lcp_multi'
          /\ f_size_multi' = c_size_multi'
          /\ fs' = Create(Create(fs, c_lcp_multi'), c_size_multi')
          /\ created' = created \cup {c_lcp_multi', c_size_multi'}
  /\ UNCHANGED <<pos_size, lcp_size, heap_size, onelevel, total, c_lcp,
                 c_size, input, missing, passes, prev,
                 last>>

(***************************************************************************)
(* main, lines 219-227: one fread of the size index and the registration   *)
(* of the run.  fread on the null stream of a missing size index is        *)
(* undefined: the invocation crashes, or the read fails like end of file.  *)
(***************************************************************************)
\* an offset that never moves past the first run
NextSeek_Stuck(off, size) == off

\* line 225
NextSeek(off, size) == off + size

\* line 227: the heap is full
BatchFull(n, k) == n = k

ReadSize ==
  /\ pc = "read"
  /\ IF f_size = NullStream
     THEN /\ pc' \in {"crashed", "last"}
          /\ UNCHANGED <<h, seek, i, f_size>>
     ELSE IF f_size.at < Len(fs[f_size.name])
     THEN LET size == fs[f_size.name][f_size.at + 1]
          IN /\ f_size' = [f_size EXCEPT !.at = @ + 1]
             /\ h' = heap_insert(h, seek, size)
             /\ seek' = NextSeek(seek, size)
             /\ i' = i + 1
             /\ pc' = IF BatchFull(i', heap_size) THEN "batch" ELSE "read"
     ELSE /\ pc' = "last"
          /\ UNCHANGED <<h, seek, i, f_size>>
  /\ UNCHANGED <<pos_size, lcp_size, heap_size, level, onelevel, blocks, sum,
                 total, f_lcp, f_size_multi, c_lcp, c_size, c_lcp_multi,
                 c_size_multi, fs, input, missing, created, allocs, passes, prev,
                 last>>

(***************************************************************************)
(* main, lines 229-238: heap_size runs are registered: merge them into one *)
(* run of the level file, write sum to the level's size index and start a  *)
(* new heap.                                                               *)
(***************************************************************************)
MergeBatch ==
  /\ pc = "batch"
  /\ LET r == heap_sort_level(h, fs[h.file], sum, level, pos_size, lcp_size)
     IN /\ fs' = Append2(Append2(fs, f_lcp, r.written), f_size_multi,
                         <<r.sum>>)
        /\ last' = Call(h, fs[h.file], level, r)
  /\ passes' = Append(passes, level)
  /\ h' = heap_alloc(heap_size, c_lcp, level)
  /\ allocs' = allocs + 1
  /\ blocks' = blocks + 1
  /\ i' = 0
  /\ sum' = 0
  /\ pc' = "read"
  /\ UNCHANGED <<pos_size, lcp_size, heap_size, level, onelevel, seek, total,
                 f_size, f_lcp, f_size_multi, c_lcp, c_size, c_lcp_multi,
                 c_size_multi, input, missing, created, prev>>

(***************************************************************************)
(* main, lines 242-272: the end of a level.  A first level that filled no  *)
(* heap and left runs registered takes the one-level shortcut; otherwise   *)
(* the last block is merged, the heap and the files are released, the      *)
(* input of a level above 1 is removed and the level files become the      *)
(* input of the next level.  fclose on the null stream of a missing size   *)
(* index is undefined: the invocation crashes or goes on.                  *)
(***************************************************************************)
\* a shortcut that forgets the blocks already merged
OneLevelCond_AnyBlocks(b, lvl) == lvl = 1

OneLevelCond(b, lvl) == b = 1 /\ lvl = 1

\* a loop condition that always asks for another level
NextLevelNeeded_Always(b, k) == TRUE

\* line 272
NextLevelNeeded(b, k) == b > k

\* a level that leaves its input files behind
RemoveInput_Never(files, lvl, pairs, sizes) == files

\* a level that removes its input whatever the level
RemoveInput_Always(files, lvl, pairs, sizes) ==
  Remove(Remove(files, pairs), sizes)

\* lines 263-266: the original inputs are not removed here
RemoveInput(files, lvl, pairs, sizes) ==
  IF lvl > 1 THEN Remove(Remove(files, pairs), sizes) ELSE files

LastBlock ==
  /\ pc = "last"
  /\ IF i # 0 /\ OneLevelCond(blocks, level)
     THEN /\ onelevel' = 1
          /\ f_lcp' = NULL /\ f_size' = NullStream /\ f_size_multi' = NULL
          /\ fs' = Remove(Remove(fs, c_size_multi), c_lcp_multi)
          /\ pc' = "final"
          /\ UNCHANGED <<h, passes, last, c_lcp, c_size>>
     ELSE /\ IF i # 0
             THEN LET r == heap_sort_level(h, fs[h.file], sum, level,
                                           pos_size, lcp_size)
                      merged == Append2(Append2(fs, f_lcp, r.written),
                                        f_size_multi, <<r.sum>>)
                  IN /\ passes' = Append(passes, level)
                     /\ last' = Call(h, fs[h.file], level, r)
                     /\ \/ /\ f_size # NullStream
                           /\ fs' = RemoveInput(merged, level, c_lcp, c_size)
                           /\ pc' = IF NextLevelNeeded(blocks, heap_size)
                                    THEN "level" ELSE "final"
             ELSE /\ UNCHANGED <<passes, last>>
                  /\ \/ /\ fs' = RemoveInput(fs, level, c_lcp, c_size)
                        /\ pc' = IF NextLevelNeeded(blocks, heap_size)
                                 THEN "level" ELSE "final"
                     \/ /\ f_size = NullStream
                        /\ fs' = fs
                        /\ pc' = "crashed"
          /\ h' = NoHeap
          /\ f_lcp' = NULL /\ f_size' = NullStream /\ f_size_multi' = NULL
          /\ IF pc' = "crashed"
             THEN UNCHANGED <<c_lcp, c_size>>
             ELSE /\ c_lcp' = PairName(level)
                  /\ c_size' = SizeName(level)
          /\ UNCHANGED onelevel
  /\ UNCHANGED <<pos_size, lcp_size, heap_size, level, i, blocks, seek, sum,
                 total, c_lcp_multi, c_size_multi, input, missing, created, allocs,
                 prev>>

(***************************************************************************)
(* main, lines 274-309: unless the one-level shortcut was taken, a heap of *)
(* capacity blocks is allocated on the last level file and every run of    *)
(* the last level's size index is registered.                              *)
(***************************************************************************)
\* a final heap one run too small
FinalCapacity_OneLess(b) == b - 1

\* line 297: the capacity of the heap of the final pass
FinalCapacity(b) == b

RECURSIVE RegisterAll(_, _, _)
RegisterAll(hp, counts, off) ==
  IF counts = <<>> THEN [h |-> hp, seek |-> off]
  ELSE RegisterAll(heap_insert(hp, off, Head(counts)), Tail(counts),
                   NextSeek(off, Head(counts)))

FinalOpen ==
  /\ pc = "final"
  /\ level' = 0
  /\ IF onelevel = 1
     THEN UNCHANGED <<h, seek, allocs>>
     ELSE LET r == RegisterAll(heap_alloc(FinalCapacity(blocks), c_lcp_multi, 0),
                               fs[c_size_multi], 0)
          IN /\ h' = r.h
             /\ seek' = r.seek
             /\ allocs' = allocs + 1
  /\ pc' = "finalsort"
  /\ UNCHANGED <<pos_size, lcp_size, heap_size, onelevel, i, blocks, sum,
                 total, f_size, f_lcp, f_size_multi, c_lcp, c_size,
                 c_lcp_multi, c_size_multi, fs, input, missing, created, passes, prev,
                 last>>

(***************************************************************************)
(* main, lines 311-326: the final pass writes the lcp values to            *)
(* FILE.lcp_size.lcp, counts them in total and releases the heap.          *)
(***************************************************************************)
FinalSort ==
  /\ pc = "finalsort"
  /\ c_lcp' = OutName(lcp_size)
  /\ LET r == heap_sort_level(h, fs[h.file], 0, level, pos_size, lcp_size)
     IN /\ fs' = Append2(Create(fs, c_lcp'), c_lcp', r.written)
        /\ total' = r.sum
        /\ last' = Call(h, fs[h.file], level, r)
  /\ created' = created \cup {c_lcp'}
  /\ passes' = Append(passes, level)
  /\ h' = NoHeap
  /\ pc' = "cleanup"
  /\ UNCHANGED <<pos_size, lcp_size, heap_size, level, onelevel, i, blocks,
                 seek, sum, f_size, f_lcp, f_size_multi, c_size, c_lcp_multi,
                 c_size_multi, input, missing, allocs, prev>>

(***************************************************************************)
(* main, lines 340-380: the last level files and the original inputs are   *)
(* removed.                                                                *)
(***************************************************************************)
Cleanup ==
  /\ pc = "cleanup"
  /\ c_lcp' = PairName(0)
  /\ c_size' = SizeName(0)
  /\ fs' = Remove(Remove(Remove(Remove(fs, c_lcp_multi), c_size_multi),
                         c_lcp'), c_size')
  /\ pc' = "done"
  /\ UNCHANGED <<pos_size, lcp_size, heap_size, level, onelevel, i, blocks,
                 seek, sum, total, h, f_size, f_lcp, f_size_multi,
                 c_lcp_multi, c_size_multi, input, missing, created, allocs, passes,
                 prev,
                 last>>

Next ==
  \/ Validate
  \/ LevelBegin
  \/ ReadSize
  \/ MergeBatch
  \/ LastBlock
  \/ FinalOpen
  \/ FinalSort
  \/ Cleanup

Spec == Init /\ [][Next]_vars

(***************************************************************************)
(* main is sequential code: whenever a step is possible the program takes  *)
(* it.                                                                     *)
(***************************************************************************)
SpecFair == Init /\ [][Next]_vars /\ WF_vars(Next)

(***************************************************************************)
(* A second invocation on the same input with another heap size: the       *)
(* caller supplies the input files again and keeps the first result.       *)
(***************************************************************************)
Rerun ==
  /\ pc = "done"
  /\ prev = <<>>
  /\ missing = {}
  /\ prev' = <<[heap_size |-> heap_size, out |-> fs[OutName(lcp_size)],
               total |-> total, onelevel |-> onelevel]>>
  /\ \E k \in HeapSizes : k >= 2 /\ k # heap_size /\ heap_size' = k
  /\ fs' = [n \in DOMAIN fs \cup {PairName(0), SizeName(0)} |->
              IF n = PairName(0) THEN Flatten(input)
              ELSE IF n = SizeName(0) THEN Counts(input)
              ELSE fs[n]]
  /\ pc' = "start"
  /\ level' = 0 /\ onelevel' = 0 /\ i' = 0 /\ blocks' = 0
  /\ seek' = 0 /\ sum' = 0 /\ total' = 0
  /\ h' = NoHeap
  /\ f_size' = NullStream /\ f_lcp' = NULL /\ f_size_multi' = NULL
  /\ c_lcp' = NULL /\ c_size' = NULL /\ c_lcp_multi' = NULL
  /\ c_size_multi' = NULL
  /\ created' = {} /\ allocs' = 0 /\ passes' = <<>> /\ last' = NoCall
  /\ UNCHANGED <<pos_size, lcp_size, input, missing>>

NextRerun == Next \/ Rerun

SpecRerun == Init /\ [][NextRerun]_vars

(***************************************************************************)
(* Reference results, computed without the merge engine.                   *)
(***************************************************************************)
RECURSIVE InsertSorted(_, _)
InsertSorted(s, x) ==
  IF s = <<>> THEN <<x>>
  ELSE IF x <= Head(s) THEN <<x>> \o s
  ELSE <<Head(s)>> \o InsertSorted(Tail(s), x)

RECURSIVE SortedSeq(_)
SortedSeq(s) == IF s = <<>> THEN <<>> ELSE InsertSorted(SortedSeq(Tail(s)), Head(s))

Vals(s) == [j \in 1..Len(s) |-> lcp(s[j], lcp_size)]

Output == fs[OutName(lcp_size)]

ValidConfig ==
  /\ pos_size >= 1 /\ lcp_size >= 1 /\ pos_size + lcp_size <= 16
  /\ heap_size >= 2

HasSentinelRecord ==
  \E j \in 1..Len(input) : \E x \in 1..Len(input[j]) :
    input[j][x] = MAX_KEY(pos_size, lcp_size)

LevelFiles == {n \in created : n[1] \in {"pair", "size"}}

\* C1: after a completed invocation on sorted runs the output is the lcp
\* field of every input record, in non-decreasing order of the packed keys.
C1_OutputSorted ==
  (pc = "done" /\ missing = {}) => Output = Vals(SortedSeq(Flatten(input)))

\* The same on the inputs that hold no record equal to the sentinel.
C1_OutputSortedNoSentinel ==
  (pc = "done" /\ missing = {} /\ ~HasSentinelRecord)
    => Output = Vals(SortedSeq(Flatten(input)))

\* C2: the total reported by the final pass is the sum of the counts of the
\* original size index.
C2_Conservation ==
  (pc = "done" /\ missing = {}) => total = SumSeq(Counts(input))

\* The same on the inputs that hold no record equal to the sentinel.
C2_ConservationNoSentinel ==
  (pc = "done" /\ missing = {} /\ ~HasSentinelRecord)
    => total = SumSeq(Counts(input))

\* C3: two invocations on the same input with different heap sizes write the
\* same output and report the same total.
C3_CascadeEquivalence ==
  (pc = "done" /\ prev # <<>>)
    => /\ Output = prev[1].out
       /\ total = prev[1].total

\* one invocation took the one-level shortcut, the other went through the
\* level files, on an input of several records
C3_Witness ==
  /\ pc = "done" /\ prev # <<>>
  /\ prev[1].heap_size # heap_size
  /\ onelevel # prev[1].onelevel
  /\ Len(Output) >= 2

\* C4: with a single run nothing is written to a level file, the empty
\* level-1 files are removed and the output is the run's lcp values in
\* their original order.
C4_SingleRunIdentity ==
  (Len(input) = 1 /\ missing = {})
    => /\ \A n \in LevelFiles : n \in DOMAIN fs => fs[n] = <<>>
       /\ \A j \in 1..Len(passes) : passes[j] = 0
       /\ pc = "done" => /\ LevelFiles \cap DOMAIN fs = {}
                         /\ Output = Vals(input[1])

\* The same on the single runs that hold no record equal to the sentinel.
C4_SingleRunIdentityNoSentinel ==
  (Len(input) = 1 /\ missing = {} /\ ~HasSentinelRecord)
    => /\ \A n \in LevelFiles : n \in DOMAIN fs => fs[n] = <<>>
       /\ \A j \in 1..Len(passes) : passes[j] = 0
       /\ pc = "done" => /\ LevelFiles \cap DOMAIN fs = {}
                         /\ Output = Vals(input[1])

\* the claim's invalid configurations
InvalidConfig ==
  \/ pos_size = 0
  \/ lcp_size = 0
  \/ pos_size + lcp_size > 16
  \/ heap_size < 2

\* C5: an invalid configuration is rejected before any file is opened,
\* created, written or removed and before any heap is allocated.
C5_RejectedBeforeIO ==
  InvalidConfig
    => /\ pc \in {"start", "rejected"}
       /\ fs = InputFiles(input, {"pair", "size"} \ missing)
       /\ created = {}
       /\ f_size = NullStream /\ f_lcp = NULL /\ f_size_multi = NULL
       /\ allocs = 0
       /\ h = NoHeap

C5_Witness ==
  /\ pc = "rejected"
  /\ \/ pos_size = 9 /\ lcp_size = 8
     \/ heap_size = 1 /\ pos_size = 1 /\ lcp_size = 1 /\ Len(input) > 0

\* C6: every configuration that passed the validation has both widths in
\* 1..12 and their sum at most 16.
C6_WidthsInRange ==
  pc \notin {"start", "rejected"}
    => /\ pos_size \in 1..12
       /\ lcp_size \in 1..12
       /\ pos_size + lcp_size <= 16

\* C7: an input of zero runs ends with an empty output and a total of 0
\* without any level being run, any level file being created or any merge
\* being performed.
C7_ZeroRunsNoPass ==
  (Len(input) = 0 /\ missing = {} /\ ValidConfig)
    => /\ LevelFiles = {}
       /\ passes = <<>>
       /\ level = 0
       /\ pc = "done" => Output = <<>> /\ total = 0

\* C8: with an input file missing the invocation stops in the reported
\* fatal error before any file is created and before any merge pass.
C8_MissingInputFatal ==
  (missing # {} /\ ValidConfig)
    => /\ created = {}
       /\ passes = <<>>
       /\ pc \in {"start", "level", "fatal"}

\* C9: once an invocation is done no level file exists any more.
C9_NoLevelFileLeft ==
  pc = "done" => LevelFiles \cap DOMAIN fs = {}

\* a cascade of three levels is done
C9_Witness ==
  /\ pc = "done" /\ missing = {}
  /\ PairName(3) \in created
  /\ Len(Output) >= 2

\* C10: with 1 <= n <= heap_size runs the one-level shortcut is taken:
\* nothing is written to a level-1 file, the level-1 files are removed and
\* the final pass reads the original run file with the n runs registered.
C10_OneLevelUpToK ==
  (Len(input) >= 1 /\ Len(input) <= heap_size /\ missing = {} /\ ValidConfig)
    => /\ \A n \in LevelFiles : n \in DOMAIN fs => fs[n] = <<>>
       /\ pc \in {"final", "finalsort", "cleanup", "done"}
            => /\ onelevel = 1
               /\ LevelFiles \cap DOMAIN fs = {}
       /\ pc = "finalsort"
            => /\ h.file = PairName(0)
               /\ Len(h.cur) = Len(input)

\* The same for fewer runs than the heap size.
C10_OneLevelBelowK ==
  (Len(input) >= 1 /\ Len(input) < heap_size /\ missing = {} /\ ValidConfig)
    => /\ \A n \in LevelFiles : n \in DOMAIN fs => fs[n] = <<>>
       /\ pc \in {"final", "finalsort", "cleanup", "done"}
            => /\ onelevel = 1
               /\ LevelFiles \cap DOMAIN fs = {}
       /\ pc = "finalsort"
            => /\ h.file = PairName(0)
               /\ Len(h.cur) = Len(input)

\* a batching level has just ended, without the one-level shortcut
LevelEnded ==
  /\ pc \in {"level", "final"}
  /\ level >= 1
  /\ onelevel = 0
  /\ missing = {}

\* C11: at the end of a batching level blocks is the number of counts the
\* level wrote to its size index, and the final pass follows exactly when
\* the level wrote at most heap_size runs.
C11_BlocksCountsRuns ==
  (LevelEnded /\ Len(input) >= 1)
    => /\ blocks = Len(fs[SizeName(level)])
       /\ pc = "final" <=> Len(fs[SizeName(level)]) <= heap_size

\* What blocks is: one more than the runs written when the last heap of
\* the level was left empty.
C11_BlocksOffByOne ==
  LevelEnded
    => /\ blocks = Len(fs[SizeName(level)]) + (IF i = 0 THEN 1 ELSE 0)
       /\ pc = "final" <=> blocks <= heap_size

\* the records of a registered run that are no real records: the level
\* files end every run with the sentinel pair, the original input does not
Terminators(hp) == IF hp.file = PairName(0) THEN 0 ELSE 1

RECURSIVE RealRegistered(_, _)
RealRegistered(hp, j) ==
  IF j = 0 THEN 0
  ELSE hp.cur[j].rem - Terminators(hp) + RealRegistered(hp, j - 1)

\* the records a call popped, without the sentinel it appended
Emitted(call) == IF call.level >= 1
                 THEN SubSeq(call.written, 1, Len(call.written) - 1)
                 ELSE call.written

\* C12: when the drain loop stops on the sentinel every registered cursor
\* has no real record left and every real record of the registered runs
\* was emitted once, also for a real record whose bits are all ones.
C12_DrainExhausts ==
  (last.level >= 0 /\ missing = {})
    => /\ \A j \in 1..Len(last.after.cur) :
            last.after.cur[j].rem = Terminators(last.after)
       /\ Len(Emitted(last))
            = RealRegistered(last.before, Len(last.before.cur))

\* The same on the inputs that hold no record equal to the sentinel.
C12_DrainExhaustsNoSentinel ==
  (last.level >= 0 /\ missing = {} /\ ~HasSentinelRecord)
    => /\ \A j \in 1..Len(last.after.cur) :
            last.after.cur[j].rem = Terminators(last.after)
       /\ Len(Emitted(last))
            = RealRegistered(last.before, Len(last.before.cur))

\* the levels whose run file and size index both exist
LevelsOnDisk ==
  {n[2] : n \in {m \in LevelFiles \cap DOMAIN fs :
                   m[1] = "pair" /\ SizeName(m[2]) \in DOMAIN fs}}

\* C13 as claimed: the count written for a batch merged at a level >= 1 is
\* the number of real records of the merged run, without the terminator.
C13_CountExcludesTerminator ==
  (last.level >= 1 /\ missing = {}) => last.sum = Len(Emitted(last))

\* C13: the count written for a batch merged at a level >= 1 is the number
\* of real records of the merged run plus one for the sentinel terminator:
\* it is the number of records the run takes in the level's run file.
C13_CountIncludesTerminator ==
  /\ last.level >= 1 => last.sum = Len(Emitted(last)) + 1
  /\ \A l \in LevelsOnDisk :
       LET counts == fs[SizeName(l)]
           runs == Split(fs[PairName(l)], counts)
       IN /\ SumSeq(counts) = Len(fs[PairName(l)])
          /\ \A j \in 1..Len(runs) :
               /\ counts[j] >= 1
               /\ runs[j][counts[j]] = MAX_KEY(pos_size, lcp_size)
               /\ \A x \in 1..(counts[j] - 1) :
                    runs[j][x] # MAX_KEY(pos_size, lcp_size)

C13_Witness ==
  /\ last.level >= 1
  /\ missing = {}
  /\ Len(Emitted(last)) >= 2
  /\ last.level \in LevelsOnDisk
  /\ Len(fs[SizeName(last.level)]) >= 2

\* the size index that lists the runs of the file a heap reads
IndexOf(hp) == SizeName(hp.file[2])

\* the number of runs of the pass's input registered before the live heap's
Base == IF f_size = NullStream THEN 0 ELSE f_size.at - Len(h.cur)

\* the records of content at positions off+1 .. off+n are one whole run:
\* the run listed for it in the original input, or, in a level file, a run
\* that follows a terminator (or the start) and ends at its own terminator
RunStartsAt(hp, content, off, n, idx) ==
  IF hp.file = PairName(0)
  THEN SubSeq(content, off + 1, off + n) = input[idx]
  ELSE /\ off + n <= Len(content)
       /\ n >= 1
       /\ content[off + n] = MAX_KEY(pos_size, lcp_size)
       /\ off > 0 => content[off] = MAX_KEY(pos_size, lcp_size)
       /\ \A x \in (off + 1)..(off + n - 1) :
            content[x] # MAX_KEY(pos_size, lcp_size)

\* C14: in every pass the offset starts at 0, and run i is registered with
\* the sum of the size-index counts of the runs before it, which is the
\* position in the run file where its first record was written, the
\* terminators of earlier runs counted.
C14_OffsetsArePrefixSums ==
  (h # NoHeap /\ missing = {} /\ pc \in {"read", "batch", "last", "final",
                                         "finalsort"})
    => LET counts == fs[IndexOf(h)]
           content == fs[h.file]
       IN /\ \A j \in 1..Len(h.cur) :
               /\ Base + j <= Len(counts)
               /\ h.cur[j].off = SumSeq(SubSeq(counts, 1, Base + j - 1))
               /\ h.cur[j].rem = counts[Base + j]
               /\ RunStartsAt(h, content, h.cur[j].off, h.cur[j].rem,
                              Base + j)
          /\ (pc \in {"read", "batch", "last"} /\ f_size # NullStream)
               => seek = SumSeq(SubSeq(counts, 1, f_size.at))
          /\ (pc = "read" /\ f_size # NullStream /\ f_size.at = 0)
               => seek = 0
          /\ (pc = "finalsort" /\ onelevel = 0) => seek = SumSeq(counts)

C14_Witness ==
  /\ missing = {}
  /\ level >= 2
  /\ pc = "batch"
  /\ Len(h.cur) = 2
  /\ h.cur[2].off >= 2
  /\ Base = 2

C14_WitnessFinal ==
  /\ missing = {}
  /\ pc = "finalsort"
  /\ onelevel = 0
  /\ Len(h.cur) = 2
  /\ h.cur[2].off >= 3

\* the files a step removes
Removed == DOMAIN fs \ DOMAIN fs'

\* what the passes still to run will read exists
InputsExist ==
  /\ h # NoHeap => h.file \in DOMAIN fs
  /\ f_size # NullStream => f_size.name \in DOMAIN fs
  /\ (missing = {} /\ pc # "done")
       => {PairName(0), SizeName(0)} \subseteq DOMAIN fs
  /\ (missing = {} /\ pc = "level") => {c_lcp, c_size} \subseteq DOMAIN fs
  /\ (missing = {} /\ pc \in {"final", "finalsort"} /\ onelevel = 0)
       => {c_lcp_multi, c_size_multi} \subseteq DOMAIN fs
  /\ missing = {} => pc # "fatal"

\* a step removes only files whose consumer is through: the input of a
\* level above 1 when that level has read its whole size index, merged its
\* last block and released its heap; the empty level-1 files of the
\* one-level shortcut, which nothing reads; everything else at the end,
\* after the final pass
RemovedWhenConsumed ==
  \A f \in Removed :
    /\ h' = NoHeap \/ h'.file # f
    /\ f_size' = NullStream
    /\ \/ /\ pc = "last" /\ pc' \in {"level", "final"}
          /\ level > 1
          /\ f \in {PairName(level - 1), SizeName(level - 1)}
          /\ f_size.at = Len(fs[SizeName(level - 1)])
          /\ h' = NoHeap
          /\ i # 0 => passes' = Append(passes, level)
       \/ /\ pc = "last" /\ onelevel' = 1
          /\ f \in {PairName(1), SizeName(1)}
          /\ fs[f] = <<>>
       \/ /\ pc = "cleanup" /\ pc' = "done"
          /\ h = NoHeap
          /\ Len(passes) >= 1 /\ passes[Len(passes)] = 0

\* C15: a file is removed only after the heap reading it was released and
\* the pass consuming it finished: the input of level L (a level file) when
\* level L is done, the last level's files and the original inputs after
\* the final pass; no pass opens or reads a removed file.
C15_RemovedAfterUse == []InputsExist /\ [][RemovedWhenConsumed]_vars

C15_Witness ==
  /\ missing = {}
  /\ pc = "level"
  /\ level = 2
  /\ PairName(1) \notin DOMAIN fs
  /\ PairName(1) \in created
  /\ PairName(2) \in DOMAIN fs

\* the records the cursors of a heap still hold
RECURSIVE Registered(_, _)
Registered(hp, j) ==
  IF j = 0 THEN 0 ELSE hp.cur[j].rem + Registered(hp, j - 1)

\* a level that is followed by another level wrote fewer runs than it read
LevelShrinks ==
  (pc = "last" /\ pc' = "level")
    => Len(fs'[SizeName(level)]) < Len(fs[c_size])

\* the loop of heap_sort_level runs at most once per registered record
DrainBounded ==
  last.level >= 0
    => Len(Emitted(last)) <= Registered(last.before, Len(last.before.cur))

\* C16: with the input files present and a valid configuration the
\* invocation ends in the done state, for any number of runs: a level
\* followed by another level hands it strictly fewer runs than it read, and
\* every merge loop ends after at most one step per registered record.
C16_ReachesDone ==
  /\ (pc = "start" /\ ValidConfig /\ missing = {}) ~> (pc = "done")
  /\ [][LevelShrinks]_vars
  /\ []DrainBounded

C16_Witness ==
  /\ pc = "done"
  /\ missing = {}
  /\ Len(input) >= 4
  /\ Len(passes) >= 4
  /\ \E j \in 1..Len(passes) : passes[j] = 2

\* C17: the live heap never holds more runs than its capacity and no
\* registration is dropped: a heap of a level has capacity heap_size and
\* holds the i <= heap_size runs registered since it was allocated; the heap
\* of the final pass has a capacity of at least the number of runs in the
\* size index it reads and holds them all.
C17_WithinCapacity ==
  h # NoHeap
    => /\ Len(h.cur) <= h.cap
       /\ (pc \in {"read", "batch", "last"} \/ onelevel = 1)
            => /\ h.cap = heap_size
               /\ i <= heap_size
               /\ Len(h.cur) = i
               /\ pc = "read" => i < heap_size
       /\ (pc = "finalsort" /\ onelevel = 0)
            => /\ h.cap >= Len(fs[c_size_multi])
               /\ Len(h.cur) = Len(fs[c_size_multi])

C17_Witness ==
  /\ pc = "finalsort"
  /\ onelevel = 0
  /\ h.cap = 3
  /\ Len(h.cur) = 3
  /\ Len(passes) >= 3

C17_WitnessBatch ==
  /\ pc = "batch"
  /\ level = 2
  /\ Len(h.cur) = heap_size

\* the real records of the runs a call merged: a run of a level file
\* without its terminator, a run of the original file as it is
RealOf(call, j) ==
  IF call.before.file = PairName(0) THEN call.runs[j]
  ELSE SubSeq(call.runs[j], 1, Len(call.runs[j]) - 1)

RECURSIVE RealRecords(_, _)
RealRecords(call, j) ==
  IF j = 0 THEN <<>> ELSE RealRecords(call, j - 1) \o RealOf(call, j)

MergedRunComplete ==
  /\ last.level >= 1
       => /\ IsSorted(last.written)
          /\ last.written[Len(last.written)] = MAX_KEY(pos_size, lcp_size)
          /\ \A x \in 1..Len(Emitted(last)) :
               Emitted(last)[x] # MAX_KEY(pos_size, lcp_size)
          /\ Emitted(last)
               = SortedSeq(RealRecords(last, Len(last.runs)))
  /\ LevelEnded
       => SumSeq(fs[SizeName(level)]) - Len(fs[SizeName(level)])
            = Len(Flatten(input))

\* C18: a run merged at a level >= 1 is sorted, ends with one sentinel,
\* and its other records are the real records of the runs of its batch,
\* each as often as it occurs there; the output of every level holds as
\* many real records as the original input.
C18_MergedRunComplete == missing = {} => MergedRunComplete

\* the same for inputs without an all-ones record
C18_MergedRunCompleteNoSentinel ==
  (missing = {} /\ ~HasSentinelRecord) => MergedRunComplete

C18_SeenMultiLevel ==
  /\ missing = {} /\ ~HasSentinelRecord
  /\ last.level = 2
  /\ Len(last.runs) = 2
  /\ Len(Emitted(last)) >= 3

====
